---- MODULE Spec2Model ----
(***************************************************************************)
(* Model of src/main.py: an interpreter for integer arithmetic with        *)
(* + - * / and parentheses.  Lexer, Parser and Interpreter methods are     *)
(* state transformers over records; main() is the state machine.           *)
(*                                                                         *)
(* A text is a sequence of characters, each character a string naming it   *)
(* ("1", "+", " ", "\t", "$", "sup2" for U+00B2 ...).  Python positions    *)
(* are 0-based: text[pos] of the source is text[pos + 1] here.             *)
(***************************************************************************)
EXTENDS Integers, Sequences, FiniteSets, TLC

(***************************************************************************)
(* Bounds of the model.                                                    *)
(***************************************************************************)
MaxLen == 4        \* every text of at most MaxLen characters over Alphabet
MaxOps == 2        \* every grammar sentence with at most MaxOps operators
MaxEofCalls == 3   \* get_next_token calls made after EOF was returned
MaxLines == 2      \* lines read by one run of main

(***************************************************************************)
(* Python values.  An int is num/1; a float (the result of true division)  *)
(* is carried as the fraction num/den in lowest terms, den > 0.  str and   *)
(* None use the same record shape so that any two values compare.          *)
(***************************************************************************)
PyNone == [ty |-> "NoneType", num |-> 0, den |-> 1, s |-> ""]
PyInt(n) == [ty |-> "int", num |-> n, den |-> 1, s |-> ""]
PyStr(c) == [ty |-> "str", num |-> 0, den |-> 1, s |-> c]

Abs(n) == IF n < 0 THEN -n ELSE n

RECURSIVE Gcd(_, _)
Gcd(a, b) == IF b = 0 THEN a ELSE Gcd(b, a % b)

PyFloat(n, d) ==
  LET g == Gcd(Abs(n), Abs(d))
      sg == IF d < 0 THEN -1 ELSE 1
  IN [ty |-> "float", num |-> sg * (n \div g), den |-> sg * (d \div g), s |-> ""]

(***************************************************************************)
(* Exceptions: the class raised and its argument.                          *)
(***************************************************************************)
NoExc == [type |-> "", arg |-> ""]
Raise(type, arg) == [type |-> type, arg |-> arg]

LexicalError(c) == Raise("LexicalError", c)
ParsingError == Raise("ParsingError", "syntax")
IndexError == Raise("IndexError", "string index out of range")
ValueError == Raise("ValueError", "invalid literal for int()")
ZeroDivisionError == Raise("ZeroDivisionError", "division by zero")
NoVisitMethod(cls) == Raise("Exception", cls)

(***************************************************************************)
(* class TokenType, class Token                                            *)
(***************************************************************************)
INTEGER == "INTEGER"
PLUS == "PLUS"
MINUS == "MINUS"
MUL == "MUL"
DIV == "DIV"
LPAREN == "LPAREN"
RPAREN == "RPAREN"
EOF == "EOF"

TokenType == {INTEGER, PLUS, MINUS, MUL, DIV, LPAREN, RPAREN, EOF}

Token(type, value) == [type |-> type, value |-> value]

(***************************************************************************)
(* Character classes: str.isspace, str.isdigit, int(str).                  *)
(* "sup2" stands for the characters that isdigit() accepts and int()       *)
(* rejects (superscript two).                                              *)
(***************************************************************************)
NoneChar == "None"    \* current_char is None

DecimalDigits == <<"0", "1", "2", "3", "4", "5", "6", "7", "8", "9">>

\* mutant: only the blank counts as whitespace
isspace_blank_only(c) == c = " "

isspace(c) == c \in {" ", "\t"}

isdecimal(c) == \E i \in 1..10 : DecimalDigits[i] = c

isdigit(c) == isdecimal(c) \/ c = "sup2"

DigitValue(c) == (CHOOSE i \in 1..10 : DecimalDigits[i] = c) - 1

RECURSIVE int(_)
int(result) ==
  IF Len(result) = 1 THEN DigitValue(result[1])
  ELSE 10 * int(SubSeq(result, 1, Len(result) - 1)) + DigitValue(result[Len(result)])

(***************************************************************************)
(* class Lexer.  The fields are text, pos and current_char; ntok counts    *)
(* the tokens get_next_token has returned (an observation, never read by   *)
(* the lexer).                                                             *)
(***************************************************************************)
Lexer(text) ==
  IF Len(text) = 0
  THEN [lexer |-> [text |-> text, pos |-> 0, current_char |-> NoneChar, ntok |-> 0],
        exc |-> IndexError]
  ELSE [lexer |-> [text |-> text, pos |-> 0, current_char |-> text[1], ntok |-> 0],
        exc |-> NoExc]

advance(lx) ==
  LET pos == lx.pos + 1
  IN IF pos > Len(lx.text) - 1
     THEN [lx EXCEPT !.pos = pos, !.current_char = NoneChar]
     ELSE [lx EXCEPT !.pos = pos, !.current_char = lx.text[pos + 1]]

RECURSIVE skip_whitespace(_)
skip_whitespace(lx) ==
  IF lx.current_char # NoneChar /\ isspace(lx.current_char)
  THEN skip_whitespace(advance(lx))
  ELSE lx

RECURSIVE integer_loop(_, _)
integer_loop(lx, result) ==
  IF lx.current_char # NoneChar /\ isdigit(lx.current_char)
  THEN integer_loop(advance(lx), Append(result, lx.current_char))
  ELSE [lexer |-> lx, result |-> result]

integer(lx) ==
  LET r == integer_loop(lx, <<>>)
  IN IF \A i \in 1..Len(r.result) : isdecimal(r.result[i])
     THEN [lexer |-> r.lexer, value |-> int(r.result), exc |-> NoExc]
     ELSE [lexer |-> r.lexer, value |-> 0, exc |-> ValueError]

SingleChar(c) ==
  CASE c = "+" -> PLUS
    [] c = "-" -> MINUS
    [] c = "*" -> MUL
    [] c = "/" -> DIV
    [] c = "(" -> LPAREN
    [] c = ")" -> RPAREN
    [] OTHER -> ""

Returned(lx, token) ==
  [lexer |-> [lx EXCEPT !.ntok = lx.ntok + 1], token |-> token, exc |-> NoExc]

RECURSIVE get_next_token(_)

\* mutant: at the end of the text the lexer advances once more before it
\* returns EOF
get_next_token_advancing_at_eof(lx) ==
  LET c == lx.current_char
  IN IF c = NoneChar
     THEN Returned(advance(lx), Token(EOF, PyNone))
     ELSE IF isspace(c)
     THEN get_next_token(skip_whitespace(lx))
     ELSE IF isdigit(c)
     THEN LET r == integer(lx)
          IN IF r.exc # NoExc
             THEN [lexer |-> r.lexer, token |-> Token(EOF, PyNone), exc |-> r.exc]
             ELSE Returned(r.lexer, Token(INTEGER, PyInt(r.value)))
     ELSE IF SingleChar(c) # ""
     THEN Returned(advance(lx), Token(SingleChar(c), PyStr(c)))
     ELSE [lexer |-> lx, token |-> Token(EOF, PyNone), exc |-> LexicalError(c)]

get_next_token(lx) ==
  LET c == lx.current_char
  IN IF c = NoneChar
     THEN Returned(lx, Token(EOF, PyNone))
     ELSE IF isspace(c)
     THEN get_next_token(skip_whitespace(lx))
     ELSE IF isdigit(c)
     THEN LET r == integer(lx)
          IN IF r.exc # NoExc
             THEN [lexer |-> r.lexer, token |-> Token(EOF, PyNone), exc |-> r.exc]
             ELSE Returned(r.lexer, Token(INTEGER, PyInt(r.value)))
     ELSE IF SingleChar(c) # ""
     THEN Returned(advance(lx), Token(SingleChar(c), PyStr(c)))
     ELSE [lexer |-> lx, token |-> Token(EOF, PyNone), exc |-> LexicalError(c)]

(***************************************************************************)
(* class AST, class BinOp, class Num.  NoneNode is Python's None where a   *)
(* node is expected.                                                       *)
(***************************************************************************)
NoneNode == [cls |-> "NoneType"]

BinOp(left, op, right) == [cls |-> "BinOp", left |-> left, op |-> op, right |-> right]

Num(token) == [cls |-> "Num", token |-> token, value |-> token.value]

(***************************************************************************)
(* class Parser.  The fields are lexer and current_token.  eaten counts    *)
(* the eat calls that replaced the lookahead and trace lists what the      *)
(* parse did (observations, never read by the parser):                     *)
(*   ev = "eat"   one call of eat: the expected kind, the lookahead and    *)
(*                the lexer position before and after, the class raised    *)
(*   ev = "factor"  factor is entered                                      *)
(*   ev = "call"  factor calls expr                                        *)
(*   ev = "term", "expr"  one completed iteration of the loop of term or   *)
(*                of expr, with the lexer position at its start and end    *)
(***************************************************************************)
Event(ev, expected, before, after, pos0, pos1, raised, eaten) ==
  [ev |-> ev, expected |-> expected, before |-> before, after |-> after,
   pos0 |-> pos0, pos1 |-> pos1, raised |-> raised, eaten |-> eaten]

Parser(lexer) ==
  LET r == get_next_token(lexer)
  IN [parser |-> [lexer |-> r.lexer, current_token |-> r.token,
                  eaten |-> 0, trace |-> <<>>],
      exc |-> r.exc]

error(p) == ParsingError

\* mutant: the next token is fetched before the kinds are compared
eat_fetching_first(p, token_type) ==
  LET r == get_next_token(p.lexer)
  IN IF r.exc # NoExc
     THEN [p |-> [p EXCEPT !.lexer = r.lexer,
                    !.trace = Append(p.trace,
                       Event("eat", token_type, p.current_token, p.current_token,
                             p.lexer.pos, r.lexer.pos, r.exc.type, p.eaten))],
           exc |-> r.exc]
     ELSE IF p.current_token.type = token_type
     THEN [p |-> [p EXCEPT !.lexer = r.lexer, !.current_token = r.token,
                    !.eaten = p.eaten + 1,
                    !.trace = Append(p.trace,
                       Event("eat", token_type, p.current_token, r.token,
                             p.lexer.pos, r.lexer.pos, "", p.eaten + 1))],
           exc |-> NoExc]
     ELSE [p |-> [p EXCEPT !.lexer = r.lexer, !.current_token = r.token,
                    !.trace = Append(p.trace,
                       Event("eat", token_type, p.current_token, r.token,
                             p.lexer.pos, r.lexer.pos, error(p).type, p.eaten))],
           exc |-> error(p)]

\* line 282: the lookahead becomes the token that r fetched, unless the
\* fetch raised
eat_assign(p, token_type, r) ==
  IF r.exc # NoExc
  THEN [p |-> [p EXCEPT !.lexer = r.lexer,
                 !.trace = Append(p.trace,
                    Event("eat", token_type, p.current_token, p.current_token,
                          p.lexer.pos, r.lexer.pos, r.exc.type, p.eaten))],
        exc |-> r.exc]
  ELSE [p |-> [p EXCEPT !.lexer = r.lexer, !.current_token = r.token,
                 !.eaten = p.eaten + 1,
                 !.trace = Append(p.trace,
                    Event("eat", token_type, p.current_token, r.token,
                          p.lexer.pos, r.lexer.pos, "", p.eaten + 1))],
        exc |-> NoExc]

eat(p, token_type) ==
  IF p.current_token.type = token_type
  THEN eat_assign(p, token_type, get_next_token(p.lexer))
  ELSE [p |-> [p EXCEPT !.trace = Append(p.trace,
                  Event("eat", token_type, p.current_token, p.current_token,
                        p.lexer.pos, p.lexer.pos, error(p).type, p.eaten))],
        exc |-> error(p)]

Logged(p, ev, pos0) ==
  [p EXCEPT !.trace = Append(p.trace,
     Event(ev, "", p.current_token, p.current_token, pos0, p.lexer.pos, "", p.eaten))]

Failed(r) == [p |-> r.p, node |-> NoneNode, exc |-> r.exc]

(***************************************************************************)
(* factor, term and expr.  Each method is cut where a call returns: the    *)
(* operator named after the method runs up to the call, and the operators  *)
(* below it take what the call returned (e1, e2: an eat; n, f, t: a        *)
(* sub-parse) and run the statements that follow, or let the exception     *)
(* through.                                                                *)
(***************************************************************************)
RECURSIVE factor(_), factor_expr(_), factor_eat_RPAREN(_)
RECURSIVE term(_), term_while(_), term_loop(_, _), term_factor(_, _, _), term_BinOp(_, _, _)
RECURSIVE expr(_), expr_while(_), expr_loop(_, _), expr_term(_, _, _), expr_BinOp(_, _, _)

\* lines 298-299: after eat(INTEGER)
factor_Num(token, e1) ==
  IF e1.exc # NoExc THEN Failed(e1)
  ELSE [p |-> e1.p, node |-> Num(token), exc |-> NoExc]

\* line 304: after eat(RPAREN)
factor_return(n, e2) ==
  IF e2.exc # NoExc THEN Failed(e2)
  ELSE [p |-> e2.p, node |-> n.node, exc |-> NoExc]

\* line 303: after node = self.expr()
factor_eat_RPAREN(n) ==
  IF n.exc # NoExc THEN n ELSE factor_return(n, eat(n.p, RPAREN))

\* line 302: after eat(LPAREN)
factor_expr(e1) ==
  IF e1.exc # NoExc THEN Failed(e1)
  ELSE factor_eat_RPAREN(expr(Logged(e1.p, "call", e1.p.lexer.pos)))

\* a call that matches neither branch falls off the end and returns None
factor(p) ==
  IF p.current_token.type = INTEGER
  THEN factor_Num(p.current_token, eat(Logged(p, "factor", p.lexer.pos), INTEGER))
  ELSE IF p.current_token.type = LPAREN
  THEN factor_expr(eat(Logged(p, "factor", p.lexer.pos), LPAREN))
  ELSE [p |-> Logged(p, "factor", p.lexer.pos), node |-> NoneNode, exc |-> NoExc]

\* line 324: node = BinOp(left=node, op=token, right=...) once self.factor()
\* has returned f; p is the parser when the iteration began, its lookahead
\* the operator token
term_BinOp(p, node, f) ==
  IF f.exc # NoExc THEN f
  ELSE term_loop(Logged(f.p, "term", p.lexer.pos), BinOp(node, p.current_token, f.node))

\* lines 319-324: after the eat of the operator
term_factor(p, node, e1) ==
  IF e1.exc # NoExc THEN Failed(e1) ELSE term_BinOp(p, node, factor(e1.p))

\* lines 317-324: the while loop
term_loop(p, node) ==
  IF p.current_token.type \in {MUL, DIV}
  THEN term_factor(p, node,
         IF p.current_token.type = MUL THEN eat(p, MUL) ELSE eat(p, DIV))
  ELSE [p |-> p, node |-> node, exc |-> NoExc]

\* line 317: after node = self.factor()
term_while(f) == IF f.exc # NoExc THEN f ELSE term_loop(f.p, f.node)

term(p) == term_while(factor(p))

\* line 346: node = BinOp(left=node, op=token, right=...) once self.term()
\* has returned t
expr_BinOp(p, node, t) ==
  IF t.exc # NoExc THEN t
  ELSE expr_loop(Logged(t.p, "expr", p.lexer.pos), BinOp(node, p.current_token, t.node))

\* lines 341-346: after the eat of the operator
expr_term(p, node, e1) ==
  IF e1.exc # NoExc THEN Failed(e1) ELSE expr_BinOp(p, node, term(e1.p))

\* mutant: the rest of the expression becomes the right operand, so + and -
\* associate to the right
expr_loop_right_assoc(p, node) ==
  IF p.current_token.type \in {PLUS, MINUS}
  THEN LET token == p.current_token
           e1 == IF token.type = PLUS THEN eat(p, PLUS) ELSE eat(p, MINUS)
       IN IF e1.exc # NoExc THEN Failed(e1)
          ELSE LET t == expr(e1.p)
               IN IF t.exc # NoExc THEN t
                  ELSE [p |-> Logged(t.p, "expr", p.lexer.pos),
                        node |-> BinOp(node, token, t.node), exc |-> NoExc]
  ELSE [p |-> p, node |-> node, exc |-> NoExc]

\* lines 339-346: the while loop
expr_loop(p, node) ==
  IF p.current_token.type \in {PLUS, MINUS}
  THEN expr_term(p, node,
         IF p.current_token.type = PLUS THEN eat(p, PLUS) ELSE eat(p, MINUS))
  ELSE [p |-> p, node |-> node, exc |-> NoExc]

\* line 339: after node = self.term()
expr_while(t) == IF t.exc # NoExc THEN t ELSE expr_loop(t.p, t.node)

expr(p) == expr_while(term(p))

(***************************************************************************)
(* class Interpreter                                                       *)
(***************************************************************************)
PyAdd(a, b) ==
  IF a.ty = "int" /\ b.ty = "int" THEN PyInt(a.num + b.num)
  ELSE PyFloat(a.num * b.den + b.num * a.den, a.den * b.den)

PySub(a, b) ==
  IF a.ty = "int" /\ b.ty = "int" THEN PyInt(a.num - b.num)
  ELSE PyFloat(a.num * b.den - b.num * a.den, a.den * b.den)

PyMul(a, b) ==
  IF a.ty = "int" /\ b.ty = "int" THEN PyInt(a.num * b.num)
  ELSE PyFloat(a.num * b.num, a.den * b.den)

\* mutant: a zero divisor yields zero instead of raising
PyTrueDiv_zero_for_zero(a, b) ==
  IF b.num = 0 THEN [value |-> PyFloat(0, 1), exc |-> NoExc]
  ELSE [value |-> PyFloat(a.num * b.den, a.den * b.num), exc |-> NoExc]

PyTrueDiv(a, b) ==
  IF b.num = 0 THEN [value |-> PyNone, exc |-> ZeroDivisionError]
  ELSE [value |-> PyFloat(a.num * b.den, a.den * b.num), exc |-> NoExc]

generic_visit(node) == [value |-> PyNone, exc |-> NoVisitMethod(node.cls)]

visit_Num(node) == [value |-> node.value, exc |-> NoExc]

RECURSIVE visit(_), visit_BinOp(_)

visit_BinOp(node) ==
  LET l == visit(node.left)
  IN IF l.exc # NoExc THEN l
     ELSE LET r == visit(node.right)
          IN IF r.exc # NoExc THEN r
             ELSE IF node.op.type = PLUS
             THEN [value |-> PyAdd(l.value, r.value), exc |-> NoExc]
             ELSE IF node.op.type = MINUS
             THEN [value |-> PySub(l.value, r.value), exc |-> NoExc]
             ELSE IF node.op.type = MUL
             THEN [value |-> PyMul(l.value, r.value), exc |-> NoExc]
             ELSE IF node.op.type = DIV
             THEN PyTrueDiv(l.value, r.value)
             ELSE [value |-> PyNone, exc |-> NoExc]

visit(node) ==
  IF node.cls = "BinOp" THEN visit_BinOp(node)
  ELSE IF node.cls = "Num" THEN visit_Num(node)
  ELSE generic_visit(node)

(***************************************************************************)
(* Input texts.                                                            *)
(***************************************************************************)
Alphabet == {"0", "2", "+", "-", "*", "/", "(", ")", " ", "$"}

ShortTexts == UNION {[1..n -> Alphabet] : n \in 0..MaxLen}

ExampleTexts ==
  {<<"1", " ", "-", " ", "2", " ", "-", " ", "3">>,
   <<"1", " ", "+", " ", "2", " ", "*", " ", "3">>,
   <<"(", "1", " ", "+", " ", "2", ")", " ", "*", " ", "3">>,
   <<"1", "+", "2", "*", "3", "-", "4", "/", "2">>,
   <<" ", "1", " ", "+", " ", "2", " ", "*", " ", "3", " ", "-", " ", "4", " ", "/", " ", "2", " ">>,
   <<"5", " ", "/", " ", "0">>,
   <<"5", " ", "/", " ", "(", "2", " ", "-", " ", "2", ")">>,
   <<"1", " ", "/", " ", "2">>,
   <<"1", "+", "2", " ", "g", "a", "r", "b", "a", "g", "e">>,
   <<"1", "+", "2", " ", "3", " ", "$">>,
   <<"1", " ", "$", " ", "2">>,
   <<"(", "1", "+", "2">>,
   <<"+", "1">>,
   <<"1", " ", "+">>,
   <<"1", "2", "*", "(", "3", ")">>,
   <<"\t", "7", " ", "*", "\t", "2">>}

\* the sentences of the grammar with at most MaxOps operators, written with
\* the parentheses that precedence and left-associativity require
GenDigits == {"0", "2"}
GenLeaf(d) == [k |-> "leaf", o |-> d]
GenNode(o, l, r) == [k |-> "node", o |-> o, l |-> l, r |-> r]
GenPrec(o) == IF o \in {"+", "-"} THEN 1 ELSE 2

RECURSIVE GenTrees(_)
GenTrees(n) ==
  IF n = 0 THEN {GenLeaf(d) : d \in GenDigits}
  ELSE UNION {{GenNode(o, l, r) : o \in {"+", "-", "*", "/"},
                                  l \in GenTrees(i), r \in GenTrees(n - 1 - i)}
              : i \in 0..(n - 1)}

RECURSIVE Unparse(_, _)
Unparse(t, minPrec) ==
  IF t.k = "leaf" THEN <<t.o>>
  ELSE LET body == Unparse(t.l, GenPrec(t.o)) \o <<t.o>> \o Unparse(t.r, GenPrec(t.o) + 1)
       IN IF GenPrec(t.o) < minPrec THEN <<"(">> \o body \o <<")">> ELSE body

GrammarTexts == {Unparse(t, 1) : t \in UNION {GenTrees(n) : n \in 0..MaxOps}}

Texts == ShortTexts \cup ExampleTexts \cup GrammarTexts

\* the lines typed in a session of main
SessionLines ==
  {<<"e", "x", "i", "t">>,
   <<"E", "X", "I", "T">>,
   <<"E", "x", "i", "t">>,
   <<"e", "x", "i", "t", " ">>,
   <<"1", "+", "2">>,
   <<"1", "/", "2">>,
   <<"1", "/", "0">>,
   <<"1", " ", "$">>,
   <<"(", "1">>,
   <<"+", "1">>,
   <<"1", "sup2">>,
   <<>>}

lower(c) ==
  CASE c = "E" -> "e"
    [] c = "X" -> "x"
    [] c = "I" -> "i"
    [] c = "T" -> "t"
    [] OTHER -> c

IsExit(t) == [i \in 1..Len(t) |-> lower(t[i])] = <<"e", "x", "i", "t">>

(***************************************************************************)
(* main: the read loop.  pc is the statement about to run:                 *)
(*   "input"     text = input(...) and the exit test      (lines 460-463)  *)
(*   "Lexer"     lexer = Lexer(text)                      (line 464)       *)
(*   "Parser"    parser = Parser(lexer)                   (line 465)       *)
(*   "interpret" interpreter.interpret(): tree = expr()   (466, 467, 429)  *)
(*   "visit"     return self.visit(tree)                  (line 430)       *)
(*   "print"     print(result)                            (line 468)       *)
(*   "except"    except Exception as e: print(e)          (lines 469-470)  *)
(*   "exited"    after break                                               *)
(*   "lexing"    a client calling Lexer.get_next_token repeatedly          *)
(***************************************************************************)
VARIABLES pc, text, lexer, parser, tree, result, e, out, nread, token, eofcalls

vars == <<pc, text, lexer, parser, tree, result, e, out, nread, token, eofcalls>>

UnboundLexer == [text |-> <<>>, pos |-> 0, current_char |-> NoneChar, ntok |-> 0]

UnboundParser ==
  [lexer |-> UnboundLexer, current_token |-> Token(EOF, PyNone),
   eaten |-> 0, trace |-> <<>>]

NoToken == Token("", PyNone)

Unbound ==
  /\ lexer = UnboundLexer
  /\ parser = UnboundParser
  /\ tree = NoneNode
  /\ result = PyNone
  /\ e = NoExc
  /\ out = <<>>
  /\ token = NoToken
  /\ eofcalls = 0

Printed(kind, value, exc) == [kind |-> kind, value |-> value, exc |-> exc]

\* main is entered: nothing is bound, nothing is printed
Init ==
  /\ pc = "input"
  /\ text = <<>>
  /\ nread = 0
  /\ Unbound

\* a Lexer freshly constructed over a text, in the hands of a client
InitLex ==
  /\ pc = "lexing"
  /\ text \in Texts \ {<<>>}
  /\ nread = 0
  /\ lexer = Lexer(text).lexer
  /\ parser = UnboundParser
  /\ tree = NoneNode
  /\ result = PyNone
  /\ e = NoExc
  /\ out = <<>>
  /\ token = NoToken
  /\ eofcalls = 0

\* input() returns the line t, which is not "exit"
Read(t) ==
  /\ pc = "input"
  /\ ~IsExit(t)
  /\ text' = t
  /\ nread' = nread + 1
  /\ pc' = "Lexer"
  /\ UNCHANGED <<lexer, parser, tree, result, e, out, token, eofcalls>>

\* the first line of a session is any text
ReadText == nread = 0 /\ \E t \in Texts : Read(t)

\* a line of a session of several lines
ReadLine == nread < MaxLines /\ \E t \in SessionLines : Read(t)

\* input() returns a line that is "exit" in some case: print and break
ReadExit ==
  /\ pc = "input"
  /\ nread < MaxLines
  /\ \E t \in SessionLines :
       /\ IsExit(t)
       /\ text' = t
  /\ nread' = nread + 1
  /\ out' = Append(out, Printed("exit", PyNone, NoExc))
  /\ pc' = "exited"
  /\ UNCHANGED <<lexer, parser, tree, result, e, token, eofcalls>>

NewLexer ==
  /\ pc = "Lexer"
  /\ LET r == Lexer(text)
     IN IF r.exc # NoExc
        THEN /\ e' = r.exc
             /\ pc' = "except"
             /\ UNCHANGED lexer
        ELSE /\ lexer' = r.lexer
             /\ pc' = "Parser"
             /\ UNCHANGED e
  /\ UNCHANGED <<text, parser, tree, result, out, nread, token, eofcalls>>

\* parser.lexer is the object bound to lexer: what the parser does to its
\* lexer shows in lexer
NewParser ==
  /\ pc = "Parser"
  /\ LET r == Parser(lexer)
     IN IF r.exc # NoExc
        THEN /\ e' = r.exc
             /\ lexer' = r.parser.lexer
             /\ pc' = "except"
             /\ UNCHANGED parser
        ELSE /\ parser' = r.parser
             /\ lexer' = r.parser.lexer
             /\ pc' = "interpret"
             /\ UNCHANGED e
  /\ UNCHANGED <<text, tree, result, out, nread, token, eofcalls>>

\* mutant: interpret insists that the expression ends the text
Parse_to_eof ==
  /\ pc = "interpret"
  /\ LET r == expr(parser)
     IN /\ parser' = r.p
        /\ lexer' = r.p.lexer
        /\ IF r.exc # NoExc \/ r.p.current_token.type # EOF
           THEN /\ e' = IF r.exc # NoExc THEN r.exc ELSE ParsingError
                /\ pc' = "except"
                /\ UNCHANGED tree
           ELSE /\ tree' = r.node
                /\ pc' = "visit"
                /\ UNCHANGED e
  /\ UNCHANGED <<text, result, out, nread, token, eofcalls>>

Parse ==
  /\ pc = "interpret"
  /\ LET r == expr(parser)
     IN /\ parser' = r.p
        /\ lexer' = r.p.lexer
        /\ IF r.exc # NoExc
           THEN /\ e' = r.exc
                /\ pc' = "except"
                /\ UNCHANGED tree
           ELSE /\ tree' = r.node
                /\ pc' = "visit"
                /\ UNCHANGED e
  /\ UNCHANGED <<text, result, out, nread, token, eofcalls>>

Visit ==
  /\ pc = "visit"
  /\ LET r == visit(tree)
     IN IF r.exc # NoExc
        THEN /\ e' = r.exc
             /\ pc' = "except"
             /\ UNCHANGED result
        ELSE /\ result' = r.value
             /\ pc' = "print"
             /\ UNCHANGED e
  /\ UNCHANGED <<text, lexer, parser, tree, out, nread, token, eofcalls>>

PrintResult ==
  /\ pc = "print"
  /\ out' = Append(out, Printed("result", result, NoExc))
  /\ pc' = "input"
  /\ UNCHANGED <<text, lexer, parser, tree, result, e, nread, token, eofcalls>>

\* mutant: an exception ends the loop
PrintError_fatal ==
  /\ pc = "except"
  /\ out' = Append(out, Printed("error", PyNone, e))
  /\ e' = NoExc
  /\ pc' = "exited"
  /\ UNCHANGED <<text, lexer, parser, tree, result, nread, token, eofcalls>>

\* the name e is unbound again when the except clause ends
PrintError ==
  /\ pc = "except"
  /\ out' = Append(out, Printed("error", PyNone, e))
  /\ e' = NoExc
  /\ pc' = "input"
  /\ UNCHANGED <<text, lexer, parser, tree, result, nread, token, eofcalls>>

\* a client of the Lexer asks for the next token, also after EOF
NextToken ==
  /\ pc = "lexing"
  /\ e = NoExc
  /\ token.type = EOF => eofcalls < MaxEofCalls
  /\ LET r == get_next_token(lexer)
     IN /\ lexer' = r.lexer
        /\ IF r.exc # NoExc
           THEN /\ e' = r.exc
                /\ UNCHANGED token
           ELSE /\ token' = r.token
                /\ UNCHANGED e
  /\ eofcalls' = IF token.type = EOF THEN eofcalls + 1 ELSE eofcalls
  /\ UNCHANGED <<pc, text, parser, tree, result, out, nread>>

Cycle == NewLexer \/ NewParser \/ Parse \/ Visit \/ PrintResult \/ PrintError

Next == ReadText \/ Cycle

NextMain == ReadLine \/ ReadExit \/ Cycle

NextLex == NextToken

\* the first cycle of main, on any text
Spec == Init /\ [][Next]_vars

\* a session of main of at most MaxLines lines
SpecMain == Init /\ [][NextMain]_vars

SpecLex == InitLex /\ [][NextLex]_vars

(***************************************************************************)
(* What one cycle of main prints for a line, as the composition of the     *)
(* statements of lines 464-470.                                            *)
(***************************************************************************)
Outcome(t) ==
  LET l == Lexer(t)
  IN IF l.exc # NoExc THEN Printed("error", PyNone, l.exc)
     ELSE LET p == Parser(l.lexer)
          IN IF p.exc # NoExc THEN Printed("error", PyNone, p.exc)
             ELSE LET x == expr(p.parser)
                  IN IF x.exc # NoExc THEN Printed("error", PyNone, x.exc)
                     ELSE LET v == visit(x.node)
                          IN IF v.exc # NoExc THEN Printed("error", PyNone, v.exc)
                             ELSE Printed("result", v.value, NoExc)

(***************************************************************************)
(* The tokens of a text: what repeated get_next_token calls return, up to  *)
(* and including EOF or up to the exception raised.                        *)
(***************************************************************************)
RECURSIVE TokensFrom(_)
TokensFrom(lx) ==
  LET r == get_next_token(lx)
  IN IF r.exc # NoExc THEN [tokens |-> <<>>, exc |-> r.exc]
     ELSE IF r.token.type = EOF THEN [tokens |-> <<r.token>>, exc |-> NoExc]
     ELSE LET rest == TokensFrom(r.lexer)
          IN [tokens |-> <<r.token>> \o rest.tokens, exc |-> rest.exc]

TokenStream(t) ==
  IF Len(t) = 0 THEN [tokens |-> <<>>, exc |-> IndexError]
  ELSE TokensFrom(Lexer(t).lexer)

(***************************************************************************)
(* The reference reading of the grammar, by derivation and not by descent: *)
(*   expr := expr (PLUS|MINUS) term | term                                 *)
(*   term := term (MUL|DIV) factor | factor                                *)
(*   factor := INTEGER | LPAREN expr RPAREN                                *)
(* RefExpr(s) is the set of trees of the token sequence s (at most one),   *)
(* RefValue its value in exact fractions <<numerator, denominator>>.       *)
(***************************************************************************)
RECURSIVE RefExpr(_), RefTerm(_), RefFactor(_)

RefFactor(s) ==
  IF Len(s) = 1 /\ s[1].type = INTEGER THEN {Num(s[1])}
  ELSE IF Len(s) >= 3 /\ s[1].type = LPAREN /\ s[Len(s)].type = RPAREN
  THEN RefExpr(SubSeq(s, 2, Len(s) - 1))
  ELSE {}

RefTerm(s) ==
  RefFactor(s) \cup
  UNION {{BinOp(l, s[k], r) : l \in RefTerm(SubSeq(s, 1, k - 1)),
                              r \in RefFactor(SubSeq(s, k + 1, Len(s)))}
         : k \in {j \in 2..(Len(s) - 1) : s[j].type \in {MUL, DIV}}}

RefExpr(s) ==
  RefTerm(s) \cup
  UNION {{BinOp(l, s[k], r) : l \in RefExpr(SubSeq(s, 1, k - 1)),
                              r \in RefTerm(SubSeq(s, k + 1, Len(s)))}
         : k \in {j \in 2..(Len(s) - 1) : s[j].type \in {PLUS, MINUS}}}

RefTrees(t) ==
  LET ts == TokenStream(t)
  IN IF ts.exc # NoExc THEN {}
     ELSE RefExpr(SubSeq(ts.tokens, 1, Len(ts.tokens) - 1))

IsSentence(t) == RefTrees(t) # {}

RefTree(t) == CHOOSE r \in RefTrees(t) : TRUE

RefUndefined == <<0, 0>>

RECURSIVE RefValue(_)
RefValue(n) ==
  IF n.cls = "Num" THEN <<n.value.num, 1>>
  ELSE LET a == RefValue(n.left)
           b == RefValue(n.right)
       IN IF a = RefUndefined \/ b = RefUndefined THEN RefUndefined
          ELSE CASE n.op.type = PLUS -> <<a[1] * b[2] + b[1] * a[2], a[2] * b[2]>>
                 [] n.op.type = MINUS -> <<a[1] * b[2] - b[1] * a[2], a[2] * b[2]>>
                 [] n.op.type = MUL -> <<a[1] * b[1], a[2] * b[2]>>
                 [] n.op.type = DIV ->
                      IF b[1] = 0 THEN RefUndefined ELSE <<a[1] * b[2], a[2] * b[1]>>

RECURSIVE HasDiv(_)
HasDiv(n) ==
  n.cls = "BinOp" /\ (n.op.type = DIV \/ HasDiv(n.left) \/ HasDiv(n.right))

\* the Python value v is the fraction f, an int exactly when no division took part
SameValue(v, f, n) ==
  /\ f # RefUndefined
  /\ v.num * f[2] = f[1] * v.den
  /\ v.ty = IF HasDiv(n) THEN "float" ELSE "int"

\* C1: for every text that is a sentence of the grammar, Parser.expr builds
\* the tree of the left-recursive reference grammar (* and / bind tighter than
\* + and -, equal levels associate to the left) and the cycle ends with the
\* value the reference evaluator gives that tree (a ZeroDivisionError where
\* the reference value is undefined).
C1_PrecedenceAndAssociativity ==
  IsSentence(text) =>
    /\ pc \in {"visit", "print"} => tree = RefTree(text)
    /\ pc = "print" => SameValue(result, RefValue(RefTree(text)), RefTree(text))
    /\ pc = "except" => /\ e = ZeroDivisionError
                        /\ RefValue(RefTree(text)) = RefUndefined

C1_Witness ==
  /\ pc = "print"
  /\ IsSentence(text)
  /\ tree.cls = "BinOp" /\ tree.op.type = MINUS
  /\ tree.left.cls = "BinOp" /\ tree.left.op.type = PLUS
  /\ tree.right.cls = "BinOp" /\ tree.right.op.type = DIV

\* the events of the parse of the current text
Events(ev) == {i \in 1..Len(parser.trace) : parser.trace[i].ev = ev}

\* the cycle of the current text failed with the exception x
Raised(x) ==
  \/ pc = "except" /\ e = x
  \/ pc = "input" /\ out # <<>> /\ out[Len(out)] = Printed("error", PyNone, x)

Started == nread > 0 /\ pc \notin {"Lexer", "Parser", "interpret"}

\* C2: whenever Parser.factor is entered with a lookahead that is neither
\* INTEGER nor LPAREN the parse fails with a ParsingError; evaluating "+1" and
\* "(1+2" fails with ParsingError and evaluating "1 $ 2" with LexicalError.
C2_FactorRaisesParsingError ==
  /\ \A i \in Events("factor") :
       parser.trace[i].before.type \notin {INTEGER, LPAREN} => Raised(ParsingError)
  /\ Started /\ text \in {<<"+", "1">>, <<"(", "1", "+", "2">>} => Raised(ParsingError)
  /\ Started /\ text = <<"1", " ", "$", " ", "2">> => Raised(LexicalError("$"))

RECURSIVE Complete(_)
Complete(n) ==
  \/ n.cls = "Num"
  \/ n.cls = "BinOp" /\ Complete(n.left) /\ Complete(n.right)

\* C3: whenever Parser.expr returns (it did not raise), the tree it returns
\* is complete: a Num or BinOp root, and below every BinOp a left and a right
\* child that are Num or BinOp nodes.
C3_ReturnedTreeIsComplete == pc = "visit" => Complete(tree)

RECURSIVE DividesByZero(_)
DividesByZero(n) ==
  /\ n.cls = "BinOp"
  /\ \/ DividesByZero(n.left)
     \/ DividesByZero(n.right)
     \/ /\ n.op.type = DIV
        /\ RefValue(n.right) # RefUndefined
        /\ RefValue(n.right)[1] = 0

\* C4: for a well-formed expression, Interpreter.interpret raises
\* ZeroDivisionError and returns no number exactly when the tree holds a
\* division whose right operand evaluates to zero; where every divisor is
\* non-zero a number is returned.
C4_DivisionByZero ==
  Complete(tree) =>
    /\ pc = "except" => e = ZeroDivisionError /\ DividesByZero(tree) /\ result = PyNone
    /\ pc = "print" => ~DividesByZero(tree) /\ result.ty \in {"int", "float"}
    /\ pc = "input" =>
         out = IF DividesByZero(tree)
               THEN <<Printed("error", PyNone, ZeroDivisionError)>>
               ELSE <<Printed("result", result, NoExc)>>

C4_Witness ==
  /\ pc = "except"
  /\ e = ZeroDivisionError
  /\ tree.cls = "BinOp" /\ tree.op.type = DIV
  /\ tree.right.cls = "BinOp" /\ tree.right.op.type = MINUS

\* the length of the longest prefix of t that is a sentence of the grammar
\* (0: none); text trails it when it is shorter than t
SentencePrefixes(t) == {k \in 1..Len(t) : IsSentence(SubSeq(t, 1, k))}

LongestPrefix(t) ==
  IF SentencePrefixes(t) = {} THEN 0
  ELSE CHOOSE k \in SentencePrefixes(t) : \A j \in SentencePrefixes(t) : j <= k

HasTrailingText(t) == LongestPrefix(t) \in 1..(Len(t) - 1)

\* the first token of the text that trails the prefix of length k
TrailingToken(t, k) ==
  get_next_token([text |-> t, pos |-> k, current_char |-> t[k + 1], ntok |-> 0])

\* C5 as stated: when the text is a valid expression followed by further
\* text, the cycle ends as the cycle of the valid expression alone ends,
\* whatever the trailing text is.
C5_TrailingTextIgnored ==
  pc = "input" /\ HasTrailingText(text) =>
    out = <<Outcome(SubSeq(text, 1, LongestPrefix(text)))>>

\* C5 amended: when the text is a valid expression followed by further text
\* whose first token is lexed without error and is an INTEGER, LPAREN or
\* RPAREN, the cycle ends as the cycle of the valid expression alone ends,
\* and nothing after that token is read.
C5_TrailingTextAfterLookaheadIgnored ==
  pc = "input" /\ HasTrailingText(text) =>
    LET k == LongestPrefix(text)
        r == TrailingToken(text, k)
    IN r.exc = NoExc /\ r.token.type \in {INTEGER, LPAREN, RPAREN} =>
         /\ out = <<Outcome(SubSeq(text, 1, k))>>
         /\ lexer.pos = r.lexer.pos
         /\ parser.current_token = r.token

C5_Witness ==
  /\ pc = "input"
  /\ HasTrailingText(text)
  /\ TrailingToken(text, LongestPrefix(text)).exc = NoExc
  /\ TrailingToken(text, LongestPrefix(text)).token.type = INTEGER
  /\ out # <<>> /\ out[1].kind = "result"
  /\ lexer.pos < Len(text)

\* C6: once get_next_token has returned an EOF token, every later call
\* returns an EOF token, raises nothing and leaves pos and current_char as
\* they were.
C6_EofIsIdempotent ==
  [][token.type = EOF =>
       /\ token'.type = EOF
       /\ e' = NoExc
       /\ lexer'.pos = lexer.pos
       /\ lexer'.current_char = lexer.current_char]_vars

C6_Witness ==
  /\ pc = "lexing"
  /\ token.type = EOF
  /\ eofcalls >= 2
  /\ lexer.ntok >= 4

\* the statements of the cycle still to run.  Each statement of the cycle
\* is guarded by pc alone, so a cycle under way can always take a step, and
\* it ends once every step takes CycleRank down.
CycleRank ==
  CASE pc = "Lexer" -> 5
    [] pc = "Parser" -> 4
    [] pc = "interpret" -> 3
    [] pc = "visit" -> 2
    [] pc \in {"print", "except"} -> 1
    [] OTHER -> 0

CycleEnds ==
  /\ [][pc # "input" => CycleRank' < CycleRank]_vars
  /\ [](pc = "input" /\ nread = 1 =>
         Len(out) = 1 /\ out[1].kind \in {"result", "error"})

\* the measure C7 gives for termination, as stated: every completed
\* iteration of the loops of term and expr leaves the lexer further in the
\* text; every call of expr from factor comes after a token was consumed.
C7_StatedMeasure ==
  /\ \A i \in Events("term") \cup Events("expr") :
       parser.trace[i].pos1 > parser.trace[i].pos0
  /\ \A i \in Events("call") : parser.trace[i].eaten >= 1

\* C7 as stated: every cycle ends with a result or an error, and the lexer
\* position strictly advances in every loop iteration.
C7_EveryIterationAdvances == CycleEnds /\ []C7_StatedMeasure

\* C8: a line that is "exit" in any case ends the loop; any other line runs
\* one cycle and, whether it succeeds or raises, exactly one message is
\* printed for it, the message is the one the line alone determines, and the
\* loop returns to read the next line.
C8_Loop ==
  /\ pc = "exited" => IsExit(text) /\ out[Len(out)].kind = "exit"
  /\ pc \notin {"input", "exited"} => ~IsExit(text) /\ Len(out) = nread - 1
  /\ pc \in {"input", "exited"} => Len(out) = nread
  /\ pc = "input" /\ nread > 0 => out[Len(out)] = Outcome(text)
  /\ \A i \in 1..(Len(out) - 1) : out[i].kind # "exit"

C8_ReadLoop ==
  /\ []C8_Loop
  /\ [][/\ pc \notin {"input", "exited"} => CycleRank' < CycleRank
        /\ pc \in {"print", "except"} => pc' = "input" /\ Len(out') = Len(out) + 1
        /\ pc # "exited"]_vars

C8_Witness ==
  /\ pc = "input"
  /\ nread = 2
  /\ out[1].kind = "error"
  /\ out[2].kind = "result"

\* whitespace to insert, and a text with it inserted after its first p characters
WsRuns == {<<" ">>, <<"\t", " ">>}

Insert(t, p, ws) == SubSeq(t, 1, p) \o ws \o SubSeq(t, p + 1, Len(t))

\* C9: whitespace inserted where the lexer stands between two tokens (before
\* the first, after the last, or between two adjacent ones, before or after
\* the whitespace already there) changes neither the tokens get_next_token
\* returns nor what the cycle of the text prints.  (Calls made after the
\* first EOF leave the lexer where it stands, so they add no place.)
C9_WhitespaceInsensitive ==
  eofcalls = 0 =>
    LET tokens == TokenStream(text)
        printed == Outcome(text)
    IN \A ws \in WsRuns : \A p \in {lexer.pos, skip_whitespace(lexer).pos} :
         /\ TokenStream(Insert(text, p, ws)) = tokens
         /\ Outcome(Insert(text, p, ws)) = printed

C9_Witness ==
  /\ pc = "lexing"
  /\ token.type \in {PLUS, MINUS, MUL, DIV}
  /\ lexer.pos < Len(text)
  /\ isdigit(lexer.current_char)
  /\ Outcome(text).kind = "result"

FirstToken == Parser(Lexer(text).lexer).parser.current_token

\* C10: while a Parser exists, the tokens its lexer has returned number one
\* more than the eat calls that replaced the lookahead; the lookahead changes
\* only in such an eat; an eat whose expected kind is not the lookahead's
\* raises ParsingError, leaves lookahead and lexer position as they were, and
\* is the last thing the parse does.
C10_OneLookahead ==
  parser # UnboundParser =>
    LET tr == parser.trace
    IN /\ parser.lexer.ntok =
            1 + Cardinality({i \in Events("eat") : tr[i].raised = ""})
       /\ \A i \in 1..Len(tr) :
            /\ tr[i].before = IF i = 1 THEN FirstToken ELSE tr[i - 1].after
            /\ tr[i].after # tr[i].before => tr[i].ev = "eat" /\ tr[i].raised = ""
       /\ parser.current_token = IF tr = <<>> THEN FirstToken ELSE tr[Len(tr)].after
       /\ \A i \in Events("eat") :
            tr[i].expected # tr[i].before.type =>
              /\ tr[i].raised = "ParsingError"
              /\ tr[i].after = tr[i].before
              /\ tr[i].pos1 = tr[i].pos0
              /\ i = Len(tr)
              /\ parser.lexer.pos = tr[i].pos0
              /\ Raised(ParsingError)

C10_Witness ==
  /\ pc = "except"
  /\ e = ParsingError
  /\ parser.eaten >= 3
  /\ parser.trace[Len(parser.trace)].expected = RPAREN

====
